---- MODULE Spec2Model ----
(***************************************************************************)
(* The agent / orchestrator coordination layer of the test-automation      *)
(* harness: MCPAgentOrchestrator, the BaseAgent subclasses (APIAgent,       *)
(* MobileAgent, WireMockAgent, HeadSpinAgent) and ReportGenerator.         *)
(*                                                                         *)
(* Modelling conventions                                                   *)
(*   - a JavaScript string built from a template literal is a sequence of  *)
(*     chunks (literal parts and interpolated values); '' is <<>>;         *)
(*   - an optional field (error?: string) is a set with at most one        *)
(*     element: {} is undefined;                                           *)
(*   - every TaskResult object carries the identity (id) of its            *)
(*     allocation, so that two results of the same task stay distinct;     *)
(*   - an array held by reference (AgentReport.testResults) is a           *)
(*     reference to the owning agent's array, read through Deref;          *)
(*   - TaskResult.duration (wall-clock seconds) is not modelled.           *)
(***************************************************************************)
EXTENDS Integers, Sequences, FiniteSets, TLC

\* ------------------------------------------------------------------ bounds
MaxProbe == 3        \* longest TaskResult list handed to getPipelineStatus alone
MaxDirectCalls == 2  \* executeTask calls made directly on agents (no orchestrator)
MaxClock == 1        \* largest value Date.now() takes
MaxReportLen == 2    \* longest TaskResult list handed to generateAllureReport alone
MaxRetries == 2      \* largest smartRetry.maxRetries a configuration file sets
MaxMessageLen == 2   \* longest error message handed to shouldRetryTest, in chunks

\* ------------------------------------------------------------------- enums
PENDING == "pending"
RUNNING == "running"
COMPLETED == "completed"
FAILED == "failed"
TaskStatus == {PENDING, RUNNING, COMPLETED, FAILED}

DEV_EVENT == "dev_event"
CI_EVENT == "ci_event"
PR_EVENT == "pr_event"
EventType == {DEV_EVENT, CI_EVENT, PR_EVENT}

API_AGENT == "api_agent"
MOBILE_AGENT == "mobile_agent"
WIREMOCK_AGENT == "wiremock_agent"

\* ----------------------------------------------------------------- strings
EmptyStr == <<>>
NonEmptyStr(s) == \E i \in 1..Len(s) : s[i] # ""

\* An optional value: {} is undefined, {v} is v.
Undefined == {}
Some(v) == {v}

\* ------------------------------------------------------------- TaskResult
\* A mutant that creates every result in the RUNNING state, for a later update
\* that never comes.
createTaskResultLeftRunning(id, taskName, status, output, error) ==
    [id |-> id, taskName |-> taskName, status |-> RUNNING,
     output |-> output, error |-> error]

\* BaseAgent.createTaskResult: the record literal, fields copied as given.
createTaskResult(id, taskName, status, output, error) ==
    [id |-> id, taskName |-> taskName, status |-> status,
     output |-> output, error |-> error]

\* ------------------------------------------------------ getPipelineStatus
\* A mutant that looks for an unfinished result before it looks for a FAILED one.
getPipelineStatusIncompleteFirst(taskResults) ==
    IF \E i \in 1..Len(taskResults) :
           taskResults[i].status \notin {COMPLETED, FAILED}
    THEN "INCOMPLETE"
    ELSE IF \E i \in 1..Len(taskResults) : taskResults[i].status = FAILED
         THEN "FAILED"
         ELSE "SUCCESS"

\* A mutant that reports SUCCESS as soon as nothing FAILED.
getPipelineStatusNoFailureIsSuccess(taskResults) ==
    IF \E i \in 1..Len(taskResults) : taskResults[i].status = FAILED
    THEN "FAILED"
    ELSE "SUCCESS"

\* MCPAgentOrchestrator.getPipelineStatus: some FAILED, else every COMPLETED,
\* else INCOMPLETE.
getPipelineStatus(taskResults) ==
    IF \E i \in 1..Len(taskResults) : taskResults[i].status = FAILED
    THEN "FAILED"
    ELSE IF \A i \in 1..Len(taskResults) : taskResults[i].status = COMPLETED
         THEN "SUCCESS"
         ELSE "INCOMPLETE"

\* ------------------------------------------------------------------ agents
\* The agent instances of the model: the three the orchestrator's constructor
\* registers, and one HeadSpinAgent, a class no orchestrator registers.
HEADSPIN_INSTANCE == "headspin_agent"
AgentNames == {"api_agent", "mobile_agent", "wiremock_agent", HEADSPIN_INSTANCE}

\* A mutant registry that registers the mobile agent first.
agentsMobileFirst == <<"mobile_agent", "api_agent", "wiremock_agent">>

\* A mutant registry that lacks the WireMock agent.
agentsWithoutWireMock == <<"api_agent", "mobile_agent">>

\* MCPAgentOrchestrator.agents, in Object.entries (insertion) order.
agents == <<"api_agent", "mobile_agent", "wiremock_agent">>

\* A mutant in which every agent's testResults field holds one shared array.
testResultsOfShared(a) == "api_agent"

\* The array the testResults field of an agent holds: the field initialiser
\* gives every instance an array of its own, named here by the instance.
testResultsOf(a) == a

\* The agentType each constructor hands to super().
agentType(a) ==
    CASE a = "api_agent" -> API_AGENT
      [] a = "mobile_agent" -> MOBILE_AGENT
      [] a = "wiremock_agent" -> WIREMOCK_AGENT
      [] a = HEADSPIN_INSTANCE -> MOBILE_AGENT

\* The case labels of each executeTask's switch.
RecognizedTasks(a) ==
    CASE a = "api_agent" -> {"postman_tests", "api_validation"}
      [] a = "mobile_agent" -> {"appium_tests", "webdriver_tests"}
      [] a = "wiremock_agent" -> {"wiremock_tests", "mock_validation"}
      [] a = HEADSPIN_INSTANCE -> {"headspin_ios_smoke"}

\* Task names a caller passes to an agent: the names the agent recognizes, a
\* name only another agent recognizes, and a name no agent recognizes.
TaskNames(a) ==
    RecognizedTasks(a) \cup {"postman_tests", "unknown_task"}

\* What a throw statement can throw: an Error with a message (text), or any
\* other value, here a string (text).
ErrorOf(message) == [isError |-> TRUE, text |-> message]
ThrownValues == {ErrorOf(<<"boom">>), [isError |-> FALSE, text |-> <<"oops">>]}

\* String(value): Error.prototype.toString gives "Error: <message>", a string
\* is itself.
StringOf(thrown) ==
    IF thrown.isError THEN <<"Error: ">> \o thrown.text ELSE thrown.text

\* error instanceof Error ? error.message : String(error)
MessageOf(thrown) == IF thrown.isError THEN thrown.text ELSE StringOf(thrown)

\* What the tool wrapped by a task body does: it works, it throws, or (HeadSpin)
\* the credentials are missing from the environment.
EnvOk == [kind |-> "ok", thrown |-> ErrorOf(EmptyStr)]
EnvThrows(v) == [kind |-> "throws", thrown |-> v]
EnvNoCredentials == [kind |-> "no_credentials", thrown |-> ErrorOf(EmptyStr)]
EnvOutcomes(a) ==
    {EnvOk} \cup {EnvThrows(v) : v \in ThrownValues}
            \cup (IF a = HEADSPIN_INSTANCE THEN {EnvNoCredentials} ELSE {})

Returns(value) == [throws |-> FALSE, value |-> value, thrown |-> ErrorOf(EmptyStr)]
Throws(thrown) == [throws |-> TRUE, value |-> EmptyStr, thrown |-> thrown]

\* The operation each executeTask hands to measureExecutionTime: the switch over
\* the task name and the private method it selects. measureExecutionTime passes
\* the operation's value or exception through unchanged.
TaskBody(a, task, env) ==
    CASE task \notin RecognizedTasks(a) ->
            Throws(ErrorOf(<<"Unknown task: ", task>>))
      [] task = "postman_tests" /\ a = "api_agent" ->
            IF env.kind = "ok"
            THEN Returns(<<"Postman tests simulated: ", "newman run", "...">>)
            ELSE Throws(ErrorOf(<<"Postman tests failed: ">> \o MessageOf(env.thrown)))
      [] task = "api_validation" /\ a = "api_agent" ->
            IF env.kind = "ok"
            THEN Returns(<<"API validation completed for ", "3", " endpoints">>)
            ELSE Throws(env.thrown)
      [] task = "appium_tests" /\ a = "mobile_agent" ->
            IF env.kind = "ok"
            THEN Returns(<<"Appium tests completed:">>)
            ELSE Throws(env.thrown)
      [] task = "webdriver_tests" /\ a = "mobile_agent" ->
            IF env.kind = "ok"
            THEN Returns(<<"WebDriver tests completed:">>)
            ELSE Throws(env.thrown)
      [] task = "wiremock_tests" /\ a = "wiremock_agent" ->
            IF env.kind = "ok"
            THEN Returns(<<"Wiremock tests simulated: ", "wiremock run", "...">>)
            ELSE Throws(ErrorOf(<<"Wiremock tests failed: ">> \o MessageOf(env.thrown)))
      [] task = "mock_validation" /\ a = "wiremock_agent" ->
            IF env.kind = "ok"
            THEN Returns(<<"Wiremock validation completed for ", "1", " wiremocks">>)
            ELSE Throws(env.thrown)
      [] task = "headspin_ios_smoke" /\ a = HEADSPIN_INSTANCE ->
            CASE env.kind = "ok" ->
                    Returns(<<"HeadSpin iOS smoke test executed successfully!">>)
              [] env.kind = "no_credentials" ->
                    Throws(ErrorOf(<<"Missing HeadSpin credentials or device info in .env">>))
              [] OTHER -> Throws(env.thrown)

Last(seq) == seq[Len(seq)]

\* A mutant push that puts the element in front (unshift).
PushFront(array, element) == <<element>> \o array

\* Array.prototype.push
Push(array, element) == Append(array, element)

\* A mutant whose catch block rethrows instead of recording the failure.
executeTaskCatchRethrows(a, task, env, history, id) ==
    LET body == TaskBody(a, task, env) IN
    IF ~body.throws
    THEN LET taskResult == createTaskResult(id, task, COMPLETED, body.value, Undefined)
         IN  [settle |-> "resolved", value |-> Some(taskResult),
              testResults |-> Append(history, taskResult)]
    ELSE [settle |-> "rejected", value |-> Undefined, testResults |-> history]

\* A mutant whose catch block swallows the failure and reports the task done.
executeTaskSwallowsFailure(a, task, env, history, id) ==
    LET body == TaskBody(a, task, env)
        taskResult == createTaskResult(id, task, COMPLETED, body.value, Undefined)
    IN  [settle |-> "resolved", value |-> Some(taskResult),
         testResults |-> Append(history, taskResult)]

\* A mutant whose catch block records the failure without its message.
executeTaskDropsMessage(a, task, env, history, id) ==
    LET body == TaskBody(a, task, env)
        taskResult ==
            IF ~body.throws
            THEN createTaskResult(id, task, COMPLETED, body.value, Undefined)
            ELSE createTaskResult(id, task, FAILED, EmptyStr, Undefined)
    IN  [settle |-> "resolved", value |-> Some(taskResult),
         testResults |-> Append(history, taskResult)]

\* A mutant whose catch block records String(error) whatever was thrown.
executeTaskStringifiesError(a, task, env, history, id) ==
    LET body == TaskBody(a, task, env) IN
    IF ~body.throws
    THEN LET taskResult == createTaskResult(id, task, COMPLETED, body.value, Undefined)
         IN  [settle |-> "resolved", value |-> Some(taskResult),
              testResults |-> Append(history, taskResult)]
    ELSE LET taskResult == createTaskResult(id, task, FAILED, EmptyStr,
                                            Some(StringOf(body.thrown)))
         IN  [settle |-> "resolved", value |-> Some(taskResult),
              testResults |-> Append(history, taskResult)]

\* A mutant that keeps one result per task name: a task executed again
\* replaces its earlier result.
executeTaskOverwritesRetry(a, task, env, history, id) ==
    LET body == TaskBody(a, task, env)
        taskResult ==
            IF ~body.throws
            THEN createTaskResult(id, task, COMPLETED, body.value, Undefined)
            ELSE createTaskResult(id, task, FAILED, EmptyStr,
                                  Some(MessageOf(body.thrown)))
        earlier == {i \in 1..Len(history) : history[i].taskName = task}
    IN  [settle |-> "resolved", value |-> Some(taskResult),
         testResults |->
            IF earlier = {}
            THEN Append(history, taskResult)
            ELSE [i \in 1..Len(history) |->
                     IF i \in earlier THEN taskResult ELSE history[i]]]

\* A mutant whose catch block picks the history's last element before it
\* pushes the new result.
executeTaskReturnsBeforePush(a, task, env, history, id) ==
    LET body == TaskBody(a, task, env) IN
    IF ~body.throws
    THEN LET taskResult == createTaskResult(id, task, COMPLETED, body.value, Undefined)
         IN  [settle |-> "resolved", value |-> Some(taskResult),
              testResults |-> Append(history, taskResult)]
    ELSE LET taskResult == createTaskResult(id, task, FAILED, EmptyStr,
                                            Some(MessageOf(body.thrown)))
         IN  [settle |-> "resolved",
              value |-> IF history = <<>> THEN Undefined ELSE Some(Last(history)),
              testResults |-> Append(history, taskResult)]

\* executeTask of APIAgent, MobileAgent, WireMockAgent and HeadSpinAgent, from
\* the moment the task body has finished: try { body; COMPLETED result; push;
\* return } catch { FAILED result with the message; push; return }.
\* MobileAgent's catch block returns the last element of its history instead
\* of the local it pushed.
executeTask(a, task, env, history, id) ==
    LET body == TaskBody(a, task, env) IN
    IF ~body.throws
    THEN LET taskResult == createTaskResult(id, task, COMPLETED, body.value, Undefined)
         IN  [settle |-> "resolved", value |-> Some(taskResult),
              testResults |-> Push(history, taskResult)]
    ELSE LET taskResult == createTaskResult(id, task, FAILED, EmptyStr,
                                            Some(MessageOf(body.thrown)))
             pushed == Push(history, taskResult)
         IN  [settle |-> "resolved",
              value |-> Some(IF a = "mobile_agent" THEN Last(pushed) ELSE taskResult),
              testResults |-> pushed]

CountStatus(results, status) ==
    Cardinality({i \in 1..Len(results) : results[i].status = status})

\* A mutant that counts the FAILED results on their own and the total as the
\* number of passed ones.
generateReportTotalIsPassed(a, history) ==
    [agentType |-> agentType(a),
     totalTests |-> CountStatus(history, COMPLETED),
     passedTests |-> CountStatus(history, COMPLETED),
     failedTests |-> CountStatus(history, FAILED),
     testResults |-> a]

\* generateReport of every agent class: the counts are computed now, testResults
\* is the agent's own array (a reference, named here by its owner).
generateReport(a, history) ==
    LET totalTests == Len(history)
        passedTests == CountStatus(history, COMPLETED)
    IN  [agentType |-> agentType(a),
         totalTests |-> totalTests,
         passedTests |-> passedTests,
         failedTests |-> totalTests - passedTests,
         testResults |-> a]

\* A mutant in which generateReport hands its results over and starts afresh.
generateReportDrains(a, history) == <<>>

\* The agent's history once generateReport has returned: the method reads
\* this.testResults (length, filter) and assigns nothing.
generateReportLeaves(a, history) == history

\* -------------------------------------------------------------- task table
\* The object literal getTasksForEvent returns, as its Object.entries: the
\* keys in insertion order, each with its task list.
TaskTable ==
    << [name |-> "api_agent", tasks |-> <<"postman_tests", "api_validation">>],
       [name |-> "mobile_agent", tasks |-> <<"appium_tests", "webdriver_tests">>],
       [name |-> "wiremock_agent", tasks |-> <<"wiremock_tests", "wiremock_tests">>] >>

\* A mutant that gives pull-request events the API tasks alone.
getTasksForEventPROnlyApi(ev) ==
    CASE ev.eventType = CI_EVENT -> TaskTable
      [] ev.eventType = PR_EVENT -> <<TaskTable[1]>>
      [] ev.eventType = DEV_EVENT -> TaskTable
      [] OTHER -> TaskTable

\* MCPAgentOrchestrator.getTasksForEvent: every case label, and default, falls
\* through to the same return.
getTasksForEvent(ev) ==
    CASE ev.eventType = CI_EVENT -> TaskTable
      [] ev.eventType = PR_EVENT -> TaskTable
      [] ev.eventType = DEV_EVENT -> TaskTable
      [] OTHER -> TaskTable

\* The position of the nested for loops of processEvent: the agent entry and
\* the task within it. A position past the last entry ends the loops.
RECURSIVE SkipEmpty(_, _)
SkipEmpty(table, a) ==
    IF a <= Len(table) /\ Len(table[a].tasks) = 0
    THEN SkipEmpty(table, a + 1)
    ELSE a

FirstCursor(table) == [agent |-> SkipEmpty(table, 1), task |-> 1]

Advance(table, cursor) ==
    IF cursor.task < Len(table[cursor.agent].tasks)
    THEN [agent |-> cursor.agent, task |-> cursor.task + 1]
    ELSE [agent |-> SkipEmpty(table, cursor.agent + 1), task |-> 1]

LoopDone(table, cursor) == cursor.agent > Len(table)

\* A mutant loop that gives up at the first FAILED result (fail-fast).
LoopAfterFailFast(table, cursor, result) ==
    IF result.status = FAILED
    THEN [agent |-> Len(table) + 1, task |-> 1]
    ELSE Advance(table, cursor)

\* A mutant that repeats the iteration whose task failed.
LoopAfterRetriesFailed(table, cursor, result) ==
    IF result.status = FAILED THEN cursor ELSE Advance(table, cursor)

\* The position of the loops after the iteration that got result: the next
\* iteration, whatever the result.
LoopAfter(table, cursor, result) == Advance(table, cursor)

EntryAt(table, cursor) ==
    [agent |-> table[cursor.agent].name,
     task |-> table[cursor.agent].tasks[cursor.task]]

\* The entries of the table from a position on, in loop order.
RECURSIVE EntriesFrom(_, _)
EntriesFrom(table, cursor) ==
    IF LoopDone(table, cursor)
    THEN <<>>
    ELSE <<EntryAt(table, cursor)>> \o EntriesFrom(table, Advance(table, cursor))

\* A mutant loop that does not await executeTask: every remaining call is
\* started in the same synchronous stretch.
CallsStartedNoAwait(table, cursor) == EntriesFrom(table, cursor)

\* The executeTask calls one synchronous stretch of the loop starts: the loop
\* body awaits its call, so the stretch ends with the first call it makes.
CallsStarted(table, cursor) ==
    IF LoopDone(table, cursor) THEN <<>> ELSE <<EntryAt(table, cursor)>>

\* -------------------------------------------------------- ReportGenerator
DEFAULT_OUTPUT_DIR == "pipeline-reports"

\* path.join(outputDir, `allure-report-${Date.now()}.json`)
ReportPath(outputDir, stamp) == [dir |-> outputDir, stamp |-> stamp]

\* A mutant that counts as passed every result that is not FAILED.
ReportDataPassedIsRest(results) ==
    [totalTests |-> Len(results),
     passed |-> Len(results) - CountStatus(results, FAILED),
     failed |-> CountStatus(results, FAILED),
     results |-> results]

\* The data object generateAllureReport serializes.
ReportData(results) ==
    [totalTests |-> Len(results),
     passed |-> CountStatus(results, COMPLETED),
     failed |-> CountStatus(results, FAILED),
     results |-> results]

\* What fs.mkdir and fs.writeFile reject with when they fail.
MKDIR_ERROR == ErrorOf(<<"EACCES: permission denied, mkdir">>)
WRITE_ERROR == ErrorOf(<<"ENOSPC: no space left on device, write">>)

\* ReportGenerator.syncWithZephyrJira: the message for a number of FAILED results.
SyncMessage(failedCount) ==
    IF failedCount # 0
    THEN <<"Mock: Synced ", failedCount, " failed test(s) with Jira.">>
    ELSE <<"No issues to sync with Jira/Zephyr - all tests passed!">>

\* ------------------------------------------------------------------ events
Branches == {"main", "test"}
Events ==
    [eventType : EventType, branch : Branches,
     commitHash : {"123abc"}, author : {"CI Bot"}]

\* The events getTasksForEvent is asked about on its own: every field varies,
\* and eventType also takes a value outside the enum.
TableEvents ==
    [eventType : EventType \cup {"release_event"}, branch : Branches,
     commitHash : {"123abc", "456def"}, author : {"CI Bot", "dev"},
     metadata : {Undefined, Some("nightly")}]

\* The run main() of src/index.ts starts on a fresh orchestrator.
Runs == {1}

\* The processEvent calls made on one orchestrator when a caller makes a
\* second one.
AllRuns == Runs \cup {2}
Direct == 0    \* the caller of an executeTask call made without an orchestrator

\* The callers of the two generateAllureReport calls made without an
\* orchestrator, and every caller of a report operation.
DirectReports == {Direct, Direct - 1}
ReportCallers == AllRuns \cup DirectReports

\* The directories a caller passes as outputDir.
OutputDirs == {DEFAULT_OUTPUT_DIR, "custom-reports"}

\* The TaskResult lists of a given length, over every status.
RECURSIVE ListsOfLen(_)
ListsOfLen(n) ==
    IF n = 0
    THEN {<<>>}
    ELSE {Append(l, createTaskResult(n, "unit_test", st, EmptyStr,
                                     IF st = FAILED THEN Some(<<"err">>) ELSE Undefined)) :
             l \in ListsOfLen(n - 1), st \in TaskStatus}
ReportInputs == UNION {ListsOfLen(n) : n \in 0..MaxReportLen}

\* ------------------------------------------------------------------- state
VARIABLES
    testResults,     \* each agent's private history (this.testResults)
    nextId,          \* identity of the next TaskResult object created
    pending,         \* executeTask calls whose task body has not finished
    settled,         \* executeTask calls that have settled: whether the task body
                     \* threw, what the call gave, whether its caller has taken it
    nextCall,        \* identity of the next executeTask call
    completedCalls,  \* per agent, the number of executeTask calls settled so far
    lastReport,      \* what the latest generateReport call made on an agent returned
    pc,              \* per processEvent run, where the run stands
    event,           \* per run, the event it was given
    cursor,          \* per run, the position of its task loops
    allResults,      \* per run, its allResults array
    allure,          \* per caller, its generateAllureReport call
    jira,            \* per caller, its syncWithZephyrJira call
    agentReports,    \* per run, the agentReports entries assigned so far
    awaitedReport,   \* per run, the generateReport result its loop is awaiting
    returned,        \* per run, the PipelineResult processEvent resolved with
    rejection,       \* per run, the error processEvent rejected with
    now,             \* the clock Date.now() reads
    dirs,            \* the directories that exist
    files,           \* the files written, by path
    probe,           \* a TaskResult list handed to getPipelineStatus on its own
    verdict,         \* what getPipelineStatus gave for probe
    tables,          \* the events getTasksForEvent was asked about, each with its table
    retry            \* a retry loop around shouldRetryTest: its config, attempt and last answer

agentVars == <<testResults, nextId, pending, settled, nextCall, completedCalls>>
runVars == <<pc, event, cursor, allResults, allure, jira, agentReports,
             awaitedReport, returned, rejection>>
envVars == <<now, dirs, files>>
probeVars == <<probe, verdict, tables, retry>>
vars == <<agentVars, lastReport, runVars, envVars, probeVars>>

\* The array a reference held in an AgentReport points to.
Deref(ref) == testResults[ref]

IdleCall == [state |-> "idle"]

Init ==
    /\ testResults = [a \in AgentNames |-> <<>>]
    /\ nextId = 1
    /\ pending = {}
    /\ settled = {}
    /\ nextCall = 1
    /\ completedCalls = [a \in AgentNames |-> 0]
    /\ lastReport = {}
    /\ pc = [r \in AllRuns |-> "idle"]
    /\ event = [r \in AllRuns |-> {}]
    /\ cursor = [r \in AllRuns |-> [agent |-> 1, task |-> 1]]
    /\ allResults = [r \in AllRuns |-> <<>>]
    /\ allure = [r \in ReportCallers |-> IdleCall]
    /\ jira = [r \in ReportCallers |-> IdleCall]
    /\ agentReports = [r \in AllRuns |-> <<>>]
    /\ awaitedReport = [r \in AllRuns |-> {}]
    /\ returned = [r \in AllRuns |-> {}]
    /\ rejection = [r \in AllRuns |-> {}]
    /\ now = 0
    /\ dirs = {}
    /\ files = {}
    /\ probe = <<>>
    /\ verdict = {}
    /\ tables = {}
    /\ retry = [phase |-> "idle"]

\* ---------------------------------------------------------- agent actions
\* A mutant in which every call settles towards the first run.
NewCallsFirstRun(caller, entries) ==
    {[cid |-> nextCall + i - 1, caller |-> IF caller = Direct THEN Direct ELSE 1,
      agent |-> entries[i].agent, task |-> entries[i].task] : i \in 1..Len(entries)}

\* The calls a caller starts, one per entry, numbered from nextCall on.
NewCalls(caller, entries) ==
    {[cid |-> nextCall + i - 1, caller |-> caller,
      agent |-> entries[i].agent, task |-> entries[i].task] : i \in 1..Len(entries)}

\* The task body of a pending call finishes and the rest of executeTask runs:
\* the result is created, pushed on the agent's history and the call settles.
Settle(c) ==
    /\ c \in pending
    /\ \E env \in EnvOutcomes(c.agent) :
          LET own == testResultsOf(c.agent)
              out == executeTask(c.agent, c.task, env, testResults[own], nextId)
          IN  /\ testResults' = [testResults EXCEPT ![own] = out.testResults]
              /\ settled' = settled \cup
                    {[cid |-> c.cid, caller |-> c.caller, agent |-> c.agent,
                      task |-> c.task, threw |-> TaskBody(c.agent, c.task, env).throws,
                      thrown |-> TaskBody(c.agent, c.task, env).thrown,
                      settle |-> out.settle, value |-> out.value,
                      consumed |-> FALSE]}
    /\ nextId' = nextId + 1
    /\ pending' = pending \ {c}
    /\ completedCalls' = [completedCalls EXCEPT ![c.agent] = @ + 1]
    /\ UNCHANGED <<nextCall, lastReport, runVars, envVars, probeVars>>

\* A caller outside any orchestrator (a test) calls executeTask on an agent.
DirectExecuteTask(a, task) ==
    /\ nextCall <= MaxDirectCalls
    /\ pending' = pending \cup NewCalls(Direct, <<[agent |-> a, task |-> task]>>)
    /\ nextCall' = nextCall + 1
    /\ UNCHANGED <<testResults, nextId, settled, completedCalls, lastReport,
                   runVars, envVars, probeVars>>

\* A caller outside any orchestrator calls generateReport on an agent.
DirectGenerateReport(a) ==
    LET own == testResultsOf(a) IN
    /\ lastReport' = {[agent |-> a,
                       report |-> generateReport(a, testResults[own]),
                       completedAtReturn |-> completedCalls[a]]}
    /\ testResults' = [testResults EXCEPT ![own] = generateReportLeaves(a, @)]
    /\ UNCHANGED <<nextId, pending, settled, nextCall, completedCalls,
                   runVars, envVars, probeVars>>

NextAgent ==
    \/ \E a \in AgentNames : \E task \in TaskNames(a) : DirectExecuteTask(a, task)
    \/ \E c \in pending : Settle(c)
    \/ \E a \in AgentNames : DirectGenerateReport(a)

SpecAgent == Init /\ [][NextAgent]_vars

\* ------------------------------------------------- getPipelineStatus alone
ProbeResult(i, status) ==
    createTaskResult(i, "probe_task", status, EmptyStr,
                     IF status = FAILED THEN Some(<<"boom">>) ELSE Undefined)

ProbeAppend(status) ==
    /\ Len(probe) < MaxProbe
    /\ probe' = Append(probe, ProbeResult(Len(probe) + 1, status))
    /\ verdict' = {}
    /\ UNCHANGED <<agentVars, lastReport, runVars, envVars, tables, retry>>

ProbeStatus ==
    /\ verdict = {}
    /\ verdict' = {getPipelineStatus(probe)}
    /\ UNCHANGED <<probe, agentVars, lastReport, runVars, envVars, tables, retry>>

NextStatus ==
    \/ \E status \in TaskStatus : ProbeAppend(status)
    \/ ProbeStatus

SpecStatus == Init /\ [][NextStatus]_vars

\* ------------------------------------------------- getTasksForEvent alone
\* getTasksForEvent is applied to an event; the last two answers are kept.
ProbeTasksForEvent(ev) ==
    /\ \E keep \in SUBSET tables :
          /\ Cardinality(keep) <= 1
          /\ tables' = keep \cup {[event |-> ev, table |-> getTasksForEvent(ev)]}
    /\ UNCHANGED <<agentVars, lastReport, runVars, envVars, probe, verdict, retry>>

NextTable == \E ev \in TableEvents : ProbeTasksForEvent(ev)

SpecTable == Init /\ [][NextTable]_vars

\* -------------------------------------------------- shouldRetryTest alone
\* String.prototype.includes: the pattern stands somewhere in the text (the
\* empty pattern stands in every text).
Includes(text, pattern) ==
    \E i \in 0..(Len(text) - Len(pattern)) :
        SubSeq(text, i + 1, i + Len(pattern)) = pattern

\* getDefaultAIConfig().smartRetry
DEFAULT_MAX_RETRIES == 2
DEFAULT_RETRY_PATTERNS ==
    << <<"TimeoutError">>, <<"NetworkError">>, <<"ElementNotFound">>,
       <<"Page crashed">>, <<"Connection refused">>, <<"ECONNREFUSED">>,
       <<"ETIMEDOUT">> >>
DEFAULT_SKIP_PATTERNS ==
    << <<"AssertionError">>, <<"expect(">>, <<"ValidationError">> >>

getDefaultAIConfig ==
    [enabled |-> TRUE, maxRetries |-> DEFAULT_MAX_RETRIES,
     retryPatterns |-> DEFAULT_RETRY_PATTERNS,
     skipPatterns |-> DEFAULT_SKIP_PATTERNS]

\* loadAIConfig: the smartRetry section of tests/config/ai_test_config.json
\* when the file is there, the default otherwise. A file may switch the retry
\* off, change the number of retries, and name a pattern in both lists.
PatternLists ==
    {[retryPatterns |-> DEFAULT_RETRY_PATTERNS,
      skipPatterns |-> DEFAULT_SKIP_PATTERNS],
     [retryPatterns |-> << <<"ECONNREFUSED">>, <<"TimeoutError">> >>,
      skipPatterns |-> << <<"TimeoutError">> >>]}

loadAIConfig ==
    {getDefaultAIConfig} \cup
    {[enabled |-> e, maxRetries |-> m,
      retryPatterns |-> l.retryPatterns, skipPatterns |-> l.skipPatterns] :
        e \in BOOLEAN, m \in 0..MaxRetries, l \in PatternLists}

\* The errors a failed test hands over: an Error object with its name and its
\* message, either of which may name a pattern; the message may be empty.
MessageChunks ==
    {"TimeoutError", "ECONNREFUSED", "AssertionError", "expect(",
     "element is not visible"}

RECURSIVE MessagesOfLen(_)
MessagesOfLen(n) ==
    IF n = 0
    THEN {EmptyStr}
    ELSE {Append(m, c) : m \in MessagesOfLen(n - 1), c \in MessageChunks}

RetryMessages == UNION {MessagesOfLen(n) : n \in 0..MaxMessageLen}
ErrorNames == {<<"Error">>, <<"TimeoutError">>, <<"AssertionError">>}
RetryErrors == [name : ErrorNames, message : RetryMessages]

\* Error.prototype.toString: the name alone when the message is empty, the
\* message alone when the name is empty, "name: message" otherwise.
ErrorToString(error) ==
    IF error.message = EmptyStr THEN error.name
    ELSE IF error.name = EmptyStr THEN error.message
    ELSE error.name \o <<": ">> \o error.message

\* const errorMessage = error.message || error.toString()
ErrorText(error) ==
    IF error.message # EmptyStr THEN error.message ELSE ErrorToString(error)

SomePattern(text, patterns) ==
    \E i \in 1..Len(patterns) : Includes(text, patterns[i])

\* A mutant that looks for a retry pattern before it looks for a skip pattern.
shouldRetryTestRetryFirst(error, attempt, aiConfig) ==
    IF ~aiConfig.enabled \/ attempt >= aiConfig.maxRetries
    THEN FALSE
    ELSE SomePattern(ErrorText(error), aiConfig.retryPatterns)

shouldRetryTest(error, attempt, aiConfig) ==
    IF ~aiConfig.enabled \/ attempt >= aiConfig.maxRetries
    THEN FALSE
    ELSE IF SomePattern(ErrorText(error), aiConfig.skipPatterns)
    THEN FALSE
    ELSE SomePattern(ErrorText(error), aiConfig.retryPatterns)

\* A retry loop driven by shouldRetryTest: it starts with the first attempt
\* (counted from 0 or from 1) ...
StartRetryLoop(aiConfig, first) ==
    /\ retry.phase = "idle"
    /\ retry' = [phase |-> "running", config |-> aiConfig, attempt |-> first,
                 retries |-> 0, asked |-> {}]
    /\ UNCHANGED <<agentVars, lastReport, runVars, envVars, probe, verdict, tables>>

\* ... and, each time the test fails, asks shouldRetryTest: on true it runs
\* the test again with the attempt counter one higher, on false it gives up.
TestFails(error) ==
    /\ retry.phase = "running"
    /\ LET answer == shouldRetryTest(error, retry.attempt, retry.config) IN
          retry' = [retry EXCEPT
                      !.asked = {[error |-> error, attempt |-> retry.attempt,
                                  answer |-> answer]},
                      !.attempt = IF answer THEN @ + 1 ELSE @,
                      !.retries = IF answer THEN @ + 1 ELSE @,
                      !.phase = IF answer THEN "running" ELSE "gave_up"]
    /\ UNCHANGED <<agentVars, lastReport, runVars, envVars, probe, verdict, tables>>

NextRetry ==
    \/ \E aiConfig \in loadAIConfig, first \in {0, 1} :
          StartRetryLoop(aiConfig, first)
    \/ \E error \in RetryErrors : TestFails(error)

SpecRetry == Init /\ [][NextRetry]_vars

\* ---------------------------------------------------- orchestrator actions
TableOf(r) == getTasksForEvent(CHOOSE ev \in event[r] : TRUE)

\* generateAllureReport up to its first await: fs.mkdir is issued.
AllureStarted(results, outputDir) ==
    [state |-> "mkdir", dir |-> outputDir, results |-> results]

\* A mutant that filters out every result that is not COMPLETED.
JiraStartedCountsUnfinished(results) ==
    [state |-> "delay", results |-> results,
     failed |-> Len(results) - CountStatus(results, COMPLETED)]

\* syncWithZephyrJira up to its first await: the FAILED results are filtered
\* out, then the delay starts.
JiraStarted(results) ==
    [state |-> "delay", results |-> results,
     failed |-> CountStatus(results, FAILED)]

\* processEvent from a position of its task loops to its next await: it starts
\* the loop's next executeTask call or, the loops over, both report operations.
ContinueLoop(r, table, cur, results) ==
    IF ~LoopDone(table, cur)
    THEN /\ pending' = pending \cup NewCalls(r, CallsStarted(table, cur))
         /\ nextCall' = nextCall + Len(CallsStarted(table, cur))
         /\ pc' = [pc EXCEPT ![r] = "tasks"]
         /\ UNCHANGED <<allure, jira>>
    ELSE /\ allure' = [allure EXCEPT ![r] = AllureStarted(results, DEFAULT_OUTPUT_DIR)]
         /\ jira' = [jira EXCEPT ![r] = JiraStarted(results)]
         /\ pc' = [pc EXCEPT ![r] = "reports"]
         /\ UNCHANGED <<pending, nextCall>>

\* processEvent is called: the table is resolved and the first call started.
ProcessEvent(r, ev) ==
    /\ pc[r] = "idle"
    /\ event' = [event EXCEPT ![r] = {ev}]
    /\ LET table == getTasksForEvent(ev) IN
          /\ cursor' = [cursor EXCEPT ![r] = FirstCursor(table)]
          /\ allResults' = [allResults EXCEPT ![r] = <<>>]
          /\ ContinueLoop(r, table, FirstCursor(table), <<>>)
    /\ UNCHANGED <<testResults, nextId, settled, completedCalls, lastReport,
                   agentReports, awaitedReport,
                   returned, rejection, envVars, probeVars>>

\* The awaited executeTask call has settled: its result is pushed on allResults
\* and the loops go on; a rejection would leave processEvent through the await.
Resume(r) ==
    /\ pc[r] = "tasks"
    /\ \E s \in settled :
          /\ s.caller = r
          /\ ~s.consumed
          /\ settled' = (settled \ {s}) \cup {[s EXCEPT !.consumed = TRUE]}
          /\ IF s.settle = "rejected"
             THEN /\ pc' = [pc EXCEPT ![r] = "rejected"]
                  /\ rejection' = [rejection EXCEPT ![r] = {s.thrown}]
                  /\ UNCHANGED <<cursor, allResults, pending, nextCall, allure, jira>>
             ELSE LET result == CHOOSE v \in s.value : TRUE
                      results == Push(allResults[r], result)
                      cur == LoopAfter(TableOf(r), cursor[r], result)
                  IN  /\ allResults' = [allResults EXCEPT ![r] = results]
                      /\ UNCHANGED rejection
                      /\ cursor' = [cursor EXCEPT ![r] = cur]
                      /\ ContinueLoop(r, TableOf(r), cur, results)
    /\ UNCHANGED <<testResults, nextId, completedCalls, lastReport, event,
                   agentReports, awaitedReport,
                   returned, rejection, envVars, probeVars>>

\* fs.mkdir settles. When it succeeded generateAllureReport reads the clock,
\* builds the path and the data and issues fs.writeFile.
AllureMkdir(r, ok) ==
    /\ allure[r].state = "mkdir"
    /\ IF ok
       THEN \E t \in now..MaxClock :
               /\ now' = t
               /\ dirs' = dirs \cup {allure[r].dir}
               /\ allure' = [allure EXCEPT ![r] =
                     [state |-> "write",
                      dir |-> allure[r].dir, results |-> allure[r].results,
                      path |-> ReportPath(allure[r].dir, t),
                      data |-> ReportData(allure[r].results)]]
       ELSE /\ allure' = [allure EXCEPT ![r] =
                  [state |-> "rejected", error |-> MKDIR_ERROR]]
            /\ UNCHANGED <<now, dirs>>
    /\ UNCHANGED <<agentVars, lastReport, pc, event, cursor, allResults, jira,
                   agentReports, awaitedReport,
                   returned, rejection, files, probeVars>>

\* fs.writeFile settles. When it succeeded the file holds the data and
\* generateAllureReport resolves with the path.
AllureWrite(r, ok) ==
    /\ allure[r].state = "write"
    /\ IF ok
       THEN /\ files' = {f \in files : f.path # allure[r].path}
                        \cup {[path |-> allure[r].path, data |-> allure[r].data]}
            /\ allure' = [allure EXCEPT ![r] =
                  [state |-> "resolved",
                   dir |-> allure[r].dir, results |-> allure[r].results,
                   value |-> allure[r].path]]
       ELSE /\ allure' = [allure EXCEPT ![r] =
                  [state |-> "rejected", error |-> WRITE_ERROR]]
            /\ UNCHANGED files
    /\ UNCHANGED <<agentVars, lastReport, pc, event, cursor, allResults, jira,
                   agentReports, awaitedReport,
                   returned, rejection, now, dirs, probeVars>>

\* The delay of syncWithZephyrJira is over: it resolves with its message.
JiraDelay(r) ==
    /\ jira[r].state = "delay"
    /\ jira' = [jira EXCEPT ![r] =
          [state |-> "resolved", results |-> jira[r].results,
           value |-> SyncMessage(jira[r].failed)]]
    /\ UNCHANGED <<agentVars, lastReport, pc, event, cursor, allResults, allure,
                   agentReports, awaitedReport,
                   returned, rejection, envVars, probeVars>>

\* A mutant that lists the sync message before the summary file path.
generatedReportsSyncFirst(allureReport, jiraSyncResult) ==
    <<jiraSyncResult, allureReport>>

\* generatedReports: [allureReport, jiraSyncResult], the destructured results
\* of Promise.all in the order of its argument list.
generatedReports(allureReport, jiraSyncResult) ==
    <<allureReport, jiraSyncResult>>

\* processEvent from a position of its agentReports loop to its next await or
\* to its return: the next generateReport call, or the PipelineResult.
ContinueGather(r, reports) ==
    IF Len(reports) < Len(agents)
    THEN LET name == agents[Len(reports) + 1]
             own == testResultsOf(name) IN
         /\ awaitedReport' = [awaitedReport EXCEPT ![r] =
               {[name |-> name, report |-> generateReport(name, testResults[own])]}]
         /\ testResults' = [testResults EXCEPT ![own] = generateReportLeaves(name, @)]
         /\ pc' = [pc EXCEPT ![r] = "gather"]
         /\ UNCHANGED returned
    ELSE /\ awaitedReport' = [awaitedReport EXCEPT ![r] = {}]
         /\ UNCHANGED testResults
         /\ pc' = [pc EXCEPT ![r] = "done"]
         /\ returned' = [returned EXCEPT ![r] =
               {[event |-> CHOOSE ev \in event[r] : TRUE,
                 taskResults |-> allResults[r],
                 agentReports |-> reports,
                 generatedReports |-> generatedReports(allure[r].value, jira[r].value),
                 pipelineStatus |-> getPipelineStatus(allResults[r])]}]

\* A mutant that waits for every operation and resolves whatever their
\* outcomes (Promise.allSettled).
PromiseAllSettled(states) ==
    IF \A i \in 1..Len(states) : states[i] \in {"resolved", "rejected"}
    THEN "resolved"
    ELSE "pending"

\* A mutant that settles with the first operation to settle (Promise.race).
PromiseAllAsRace(states) ==
    IF \E i \in 1..Len(states) : states[i] = "rejected" THEN "rejected"
    ELSE IF \E i \in 1..Len(states) : states[i] = "resolved" THEN "resolved"
    ELSE "pending"

\* Promise.all over the report operations: rejected as soon as one of them is,
\* resolved once all of them are.
PromiseAll(states) ==
    IF \E i \in 1..Len(states) : states[i] = "rejected" THEN "rejected"
    ELSE IF \A i \in 1..Len(states) : states[i] = "resolved" THEN "resolved"
    ELSE "pending"

\* The error Promise.all rejects with: that of the operation that rejected.
RejectionOf(ops) ==
    {ops[i].error : i \in {j \in 1..Len(ops) : ops[j].state = "rejected"}}

\* Promise.all settles: it rejects with the first rejection, and processEvent
\* with it; it resolves once both operations have, and processEvent goes on to
\* its agentReports loop.
ReportsSettled(r) ==
    /\ pc[r] = "reports"
    /\ \/ /\ PromiseAll(<<allure[r].state, jira[r].state>>) = "rejected"
          /\ pc' = [pc EXCEPT ![r] = "rejected"]
          /\ rejection' = [rejection EXCEPT ![r] = RejectionOf(<<allure[r], jira[r]>>)]
          /\ UNCHANGED <<testResults, agentReports, awaitedReport, returned>>
       \/ /\ PromiseAll(<<allure[r].state, jira[r].state>>) = "resolved"
          /\ UNCHANGED rejection
          /\ agentReports' = [agentReports EXCEPT ![r] = <<>>]
          /\ ContinueGather(r, <<>>)
    /\ UNCHANGED <<nextId, pending, settled, nextCall, completedCalls, lastReport,
                   event, cursor, allResults, allure, jira, envVars, probeVars>>

\* The awaited generateReport call has resolved: its report is assigned to
\* agentReports[name] and the loop goes on.
Gather(r) ==
    /\ pc[r] = "gather"
    /\ \E rep \in awaitedReport[r] :
          LET reports == Append(agentReports[r], rep) IN
          /\ agentReports' = [agentReports EXCEPT ![r] = reports]
          /\ ContinueGather(r, reports)
    /\ UNCHANGED <<nextId, pending, settled, nextCall, completedCalls, lastReport,
                   event, cursor, allResults, allure, jira, rejection, envVars,
                   probeVars>>

Next ==
    \/ \E r \in Runs, ev \in Events : ProcessEvent(r, ev)
    \/ \E c \in pending : Settle(c)
    \/ \E r \in Runs : Resume(r)
    \/ \E r \in Runs, ok \in BOOLEAN : AllureMkdir(r, ok)
    \/ \E r \in Runs, ok \in BOOLEAN : AllureWrite(r, ok)
    \/ \E r \in Runs : JiraDelay(r)
    \/ \E r \in Runs : ReportsSettled(r)
    \/ \E r \in Runs : Gather(r)

Spec == Init /\ [][Next]_vars

\* ------------------------------------------- two runs on one orchestrator
\* The event both calls are made with.
RunEvents == {ev \in Events : ev.eventType = CI_EVENT /\ ev.branch = "test"}

\* A task body finishes in an environment where the tools of the mobile and
\* WireMock agents work or throw an Error and the tools of the API agent work.
SettleError(c) ==
    /\ Settle(c)
    /\ \A s \in settled' \ settled :
          s.threw => s.agent # "api_agent" /\ Last(s.thrown.text) = "boom"

\* The steps of the runs under way other than the settling of a task body.
RunSteps ==
    \/ \E r \in AllRuns : Resume(r)
    \/ \E r \in AllRuns, ok \in BOOLEAN : AllureMkdir(r, ok)
    \/ \E r \in AllRuns, ok \in BOOLEAN : AllureWrite(r, ok)
    \/ \E r \in AllRuns : JiraDelay(r)
    \/ \E r \in AllRuns : ReportsSettled(r)
    \/ \E r \in AllRuns : Gather(r)

\* The caller awaits the first processEvent call before it makes the second.
NextSequential ==
    \/ \E ev \in RunEvents : ProcessEvent(1, ev)
    \/ \E ev \in RunEvents : pc[1] \in {"done", "rejected"} /\ ProcessEvent(2, ev)
    \/ \E c \in pending : SettleError(c)
    \/ RunSteps

SpecSequential == Init /\ [][NextSequential]_vars

\* ------------------------------------------------- one run that is let run
\* One processEvent call in an environment where whatever is pending finishes:
\* every task body settles, fs.mkdir and fs.writeFile settle (well or badly),
\* the delay of the sync elapses, and the event loop runs every continuation
\* that is ready.
NextLive ==
    \/ \E ev \in RunEvents : ProcessEvent(1, ev)
    \/ \E c \in pending : Settle(c)
    \/ RunSteps

Fairness ==
    /\ WF_vars(\E c \in pending : Settle(c))
    /\ \A r \in Runs :
          /\ WF_vars(Resume(r))
          /\ WF_vars(\E ok \in BOOLEAN : AllureMkdir(r, ok))
          /\ WF_vars(\E ok \in BOOLEAN : AllureWrite(r, ok))
          /\ WF_vars(JiraDelay(r))
          /\ WF_vars(ReportsSettled(r))
          /\ WF_vars(Gather(r))

SpecLive == Init /\ [][NextLive]_vars /\ Fairness

\* A task body finishes in an environment where every tool works, but for
\* Appium, which works or throws an Error when the second run calls it.
SettleAppiumError(c) ==
    /\ Settle(c)
    /\ \A s \in settled' \ settled :
          s.threw => /\ s.caller = 2
                     /\ s.task = "appium_tests"
                     /\ s.thrown = ErrorOf(<<"boom">>)

\* A run has a continuation in the microtask queue: the promise it awaits
\* has settled. The event loop runs it before it takes the next timer or I/O
\* completion.
ContinuationReady ==
    \E r \in AllRuns :
        \/ pc[r] = "tasks" /\ \E s \in settled : s.caller = r /\ ~s.consumed
        \/ pc[r] = "reports" /\ PromiseAll(<<allure[r].state, jira[r].state>>) # "pending"
        \/ pc[r] = "gather"

\* The caller makes the second processEvent call while the first is under way
\* or over. Timer and I/O completions, and the caller's second call, wait for
\* the microtask queue to drain. The file system works and the clock stands
\* still.
NextInterleaved ==
    \/ \E ev \in RunEvents : ~ContinuationReady /\ ProcessEvent(1, ev)
    \/ \E ev \in RunEvents :
          ~ContinuationReady /\ pc[1] # "idle" /\ ProcessEvent(2, ev)
    \/ \E c \in pending : ~ContinuationReady /\ SettleAppiumError(c)
    \/ \E r \in AllRuns : ~ContinuationReady /\ AllureMkdir(r, TRUE) /\ now' = now
    \/ \E r \in AllRuns : ~ContinuationReady /\ AllureWrite(r, TRUE)
    \/ \E r \in AllRuns : ~ContinuationReady /\ JiraDelay(r)
    \/ \E r \in AllRuns : Resume(r)
    \/ \E r \in AllRuns : ReportsSettled(r)
    \/ \E r \in AllRuns : Gather(r)

SpecInterleaved == Init /\ [][NextInterleaved]_vars

\* --------------------------------------------------- ReportGenerator alone
\* A caller outside any orchestrator (a test) calls generateAllureReport with a
\* list and an output directory. The second caller calls after the first.
DirectGenerateAllureReport(k, results, outputDir) ==
    /\ allure[k].state = "idle"
    /\ k # Direct => allure[Direct].state # "idle"
    /\ allure' = [allure EXCEPT ![k] = AllureStarted(results, outputDir)]
    /\ UNCHANGED <<agentVars, lastReport, pc, event, cursor, allResults, jira,
                   agentReports, awaitedReport,
                   returned, rejection, envVars, probeVars>>

NextReport ==
    \/ \E k \in DirectReports, results \in ReportInputs, outputDir \in OutputDirs :
          DirectGenerateAllureReport(k, results, outputDir)
    \/ \E k \in DirectReports, ok \in BOOLEAN : AllureMkdir(k, ok)
    \/ \E k \in DirectReports, ok \in BOOLEAN : AllureWrite(k, ok)

SpecReport == Init /\ [][NextReport]_vars

\* A caller outside any orchestrator (a test) calls syncWithZephyrJira with the
\* list built so far.
DirectSyncWithZephyrJira ==
    /\ jira[Direct].state = "idle"
    /\ jira' = [jira EXCEPT ![Direct] = JiraStarted(probe)]
    /\ UNCHANGED <<agentVars, lastReport, pc, event, cursor, allResults, allure,
                   agentReports, awaitedReport,
                   returned, rejection, envVars, probeVars>>

NextSync ==
    \/ \E status \in TaskStatus : ProbeAppend(status)
    \/ DirectSyncWithZephyrJira
    \/ JiraDelay(Direct)

SpecSync == Init /\ [][NextSync]_vars

\* ================================================================== claims
SettledOf(caller) == {s \in settled : s.caller = caller}
PendingOf(caller) == {c \in pending : c.caller = caller}
HasStatus(results, statuses) ==
    \E i \in 1..Len(results) : results[i].status \in statuses
AllEntries(r) == EntriesFrom(TableOf(r), FirstCursor(TableOf(r)))

\* C1: whenever the list handed to getPipelineStatus holds at least one FAILED
\* TaskResult, the status it gives is 'FAILED', whatever the other entries
\* (COMPLETED, PENDING, RUNNING) and wherever the FAILED one stands.
C1_FailedWins ==
    \A v \in verdict : HasStatus(probe, {FAILED}) => v = "FAILED"

\* A FAILED entry between a PENDING and a RUNNING one, status computed.
C1_Witness ==
    /\ verdict = {"FAILED"}
    /\ Len(probe) = 3
    /\ probe[1].status = PENDING
    /\ probe[2].status = FAILED
    /\ probe[3].status = RUNNING

\* C2: the status is 'SUCCESS' exactly when every entry of the list is
\* COMPLETED (the empty list included); a list without a FAILED entry and with
\* a PENDING or RUNNING one gives 'INCOMPLETE'.
C2_SuccessIffAllCompleted ==
    \A v \in verdict :
        /\ v = "SUCCESS" <=> \A i \in 1..Len(probe) : probe[i].status = COMPLETED
        /\ (~HasStatus(probe, {FAILED}) /\ HasStatus(probe, {PENDING, RUNNING}))
              => v = "INCOMPLETE"

\* A COMPLETED entry next to an unfinished one, no FAILED entry: INCOMPLETE.
C2_Witness ==
    /\ verdict = {"INCOMPLETE"}
    /\ HasStatus(probe, {COMPLETED})
    /\ HasStatus(probe, {PENDING, RUNNING})
    /\ ~HasStatus(probe, {FAILED})

\* C3: with the built-in agents no PENDING or RUNNING TaskResult ever enters an
\* agent's history or a run's taskResults, and every PipelineResult returned
\* has pipelineStatus 'SUCCESS' or 'FAILED', never 'INCOMPLETE'.
C3_NeverIncomplete ==
    /\ \A a \in AgentNames : ~HasStatus(testResults[a], {PENDING, RUNNING})
    /\ \A r \in Runs :
          /\ ~HasStatus(allResults[r], {PENDING, RUNNING})
          /\ \A p \in returned[r] :
                /\ ~HasStatus(p.taskResults, {PENDING, RUNNING})
                /\ p.pipelineStatus \in {"SUCCESS", "FAILED"}

\* A run has returned its PipelineResult with all six results COMPLETED.
C3_Witness ==
    \E r \in Runs : \E p \in returned[r] :
        /\ Len(p.taskResults) = 6
        /\ p.pipelineStatus = "SUCCESS"

\* C4: an executeTask call with a task name its agent recognizes resolves,
\* never rejects, with a TaskResult that is COMPLETED when the task body
\* returned and FAILED when it threw.
C4_RecognizedTaskSettles ==
    \A s \in settled :
        s.task \in RecognizedTasks(s.agent) =>
            /\ s.settle = "resolved"
            /\ \E result \in s.value :
                  /\ s.value = {result}
                  /\ result.taskName = s.task
                  /\ result.status = (IF s.threw THEN FAILED ELSE COMPLETED)

\* A recognized HeadSpin task whose body threw and a recognized task of
\* another agent whose body returned have both settled.
C4_Witness ==
    \E s1 \in settled, s2 \in settled :
        /\ s1.agent = HEADSPIN_INSTANCE /\ s1.task = "headspin_ios_smoke" /\ s1.threw
        /\ s2.agent = "wiremock_agent" /\ s2.task = "mock_validation" /\ ~s2.threw

\* C5: an executeTask call with a task name its agent does not recognize
\* resolves with a FAILED TaskResult whose error is the non-empty
\* 'Unknown task: <name>', and that result is in the agent's history.
C5_UnknownTaskFails ==
    \A s \in settled :
        s.task \notin RecognizedTasks(s.agent) =>
            /\ s.settle = "resolved"
            /\ \E result \in s.value :
                  /\ result.status = FAILED
                  /\ result.error = {<<"Unknown task: ", s.task>>}
                  /\ \A m \in result.error : NonEmptyStr(m)
                  /\ \E i \in 1..Len(testResults[s.agent]) :
                        testResults[s.agent][i] = result

\* The mobile agent was given a name only the API agent recognizes, the
\* HeadSpin agent a name nobody recognizes; both calls have settled.
C5_Witness ==
    \E s1 \in settled, s2 \in settled :
        /\ s1.agent = "mobile_agent" /\ s1.task = "postman_tests"
        /\ s2.agent = HEADSPIN_INSTANCE /\ s2.task = "unknown_task"

\* C6: a report returned by generateReport has totalTests = passedTests +
\* failedTests and totalTests = the number of executeTask calls settled on the
\* agent when it was returned; with no call settled on the agent the report is
\* all zero and its testResults is empty.
C6_ReportCounts ==
    \A l \in lastReport :
        /\ l.report.totalTests = l.report.passedTests + l.report.failedTests
        /\ l.report.totalTests = l.completedAtReturn
        /\ l.report.passedTests >= 0
        /\ l.report.failedTests >= 0
        /\ completedCalls[l.agent] = 0 =>
              /\ l.report.totalTests = 0
              /\ l.report.passedTests = 0
              /\ l.report.failedTests = 0
              /\ Deref(l.report.testResults) = <<>>

\* A report of one passed and one failed test.
C6_Witness ==
    \E l \in lastReport :
        /\ l.report.totalTests = 2
        /\ l.report.passedTests = 1
        /\ l.report.failedTests = 1

\* C7: fail-soft. While a run is in its task loops the call for the current
\* table entry is under way or settled, whatever the earlier results; once the
\* loops are over allResults holds one TaskResult per table entry (six), each
\* a result of its own.
C7_FailSoft ==
    \A r \in Runs :
        /\ pc[r] = "tasks" =>
              \E c \in PendingOf(r) \cup {s \in SettledOf(r) : ~s.consumed} :
                  /\ c.agent = EntryAt(TableOf(r), cursor[r]).agent
                  /\ c.task = EntryAt(TableOf(r), cursor[r]).task
        /\ pc[r] \in {"reports", "gather", "done", "rejected"} =>
              /\ Len(allResults[r]) = Len(AllEntries(r))
              /\ Len(allResults[r]) = 6
              /\ \A i, j \in 1..Len(allResults[r]) :
                    i # j => allResults[r][i].id # allResults[r][j].id

\* A run is over whose first, third and fifth tasks failed and whose others,
\* the last one among them, completed.
C7_Witness ==
    \E r \in Runs :
        /\ pc[r] = "done"
        /\ \A i \in {1, 3, 5} : allResults[r][i].status = FAILED
        /\ \A i \in {2, 4, 6} : allResults[r][i].status = COMPLETED

\* C8: a run has at most one executeTask call that has not been taken by its
\* loop, so at most one in flight: the call of an entry starts only after the
\* call of the previous entry has resolved and its result was pushed.
C8_OneCallInFlight ==
    \A r \in Runs :
        /\ Cardinality(PendingOf(r)) <= 1
        /\ Cardinality(PendingOf(r))
              + Cardinality({s \in SettledOf(r) : ~s.consumed}) <= 1
        /\ \A c \in PendingOf(r) :
              Cardinality({s \in SettledOf(r) : s.consumed}) = Len(allResults[r])

\* The call of the fourth entry is in flight, three results are in.
C8_Witness ==
    \E r \in Runs :
        /\ Len(allResults[r]) = 3
        /\ \E c \in PendingOf(r) : c.task = "webdriver_tests"

\* C9: the taskResults of a PipelineResult are in table order, which is the
\* order of execution: the i-th entry has the taskName of the i-th table entry,
\* is in the history of that entry's agent, and was created before the next.
C9_TableOrder ==
    \A r \in Runs :
        /\ \A i \in 1..Len(allResults[r]) :
              /\ i <= Len(AllEntries(r))
              /\ allResults[r][i].taskName = AllEntries(r)[i].task
              /\ \E k \in 1..Len(testResults[AllEntries(r)[i].agent]) :
                    testResults[AllEntries(r)[i].agent][k] = allResults[r][i]
              /\ i > 1 => allResults[r][i - 1].id < allResults[r][i].id
        /\ \A p \in returned[r] :
              /\ p.taskResults = allResults[r]
              /\ [i \in 1..Len(p.taskResults) |-> p.taskResults[i].taskName]
                    = <<"postman_tests", "api_validation", "appium_tests",
                        "webdriver_tests", "wiremock_tests", "wiremock_tests">>

\* A PipelineResult was returned whose results differ in status along the list.
C9_Witness ==
    \E r \in Runs : \E p \in returned[r] :
        /\ p.taskResults[1].status = COMPLETED
        /\ p.taskResults[2].status = FAILED
        /\ p.taskResults[6].status = FAILED

\* C10: no task body failure makes processEvent reject. A run rejects only
\* when a report operation has rejected; a run whose report operations both
\* resolved returns a PipelineResult in which every task body that threw shows
\* as a FAILED TaskResult with its error set, and pipelineStatus is 'FAILED'.
C10_TaskFailureNeverRejects ==
    \A r \in Runs :
        /\ pc[r] = "rejected" => "rejected" \in {allure[r].state, jira[r].state}
        /\ \A s \in SettledOf(r) : s.settle = "resolved"
        /\ pc[r] = "done" =>
              \E p \in returned[r] :
                  /\ \A s \in SettledOf(r) :
                        s.threw =>
                            /\ p.pipelineStatus = "FAILED"
                            /\ \E i \in 1..Len(p.taskResults) :
                                  /\ s.value = {p.taskResults[i]}
                                  /\ p.taskResults[i].status = FAILED
                                  /\ p.taskResults[i].error # Undefined
                                  /\ \A m \in p.taskResults[i].error : NonEmptyStr(m)

\* A run returned a FAILED PipelineResult after the body of its second task
\* threw and both report operations resolved.
C10_Witness ==
    \E r \in Runs : \E p \in returned[r] :
        /\ p.pipelineStatus = "FAILED"
        /\ p.taskResults[2].error = {<<"boom">>}
        /\ allure[r].state = "resolved"
        /\ jira[r].state = "resolved"


\* ------------------------------------------------------------ report files
ResolvedReports == {k \in ReportCallers : allure[k].state = "resolved"}

\* C11: two generateAllureReport calls of one process never return the same
\* path, so neither overwrites the file the other wrote, also when both read
\* the clock within the same millisecond.
C11_DistinctFiles ==
    \A k1 \in ResolvedReports, k2 \in ResolvedReports :
        k1 # k2 => allure[k1].value # allure[k2].value


IndicesWith(results, status) == {i \in 1..Len(results) : results[i].status = status}

\* C12: when a generateAllureReport(results, outputDir) call resolves, the file
\* at the path it returns lies under outputDir, which exists, and holds
\* totalTests = the length of results, passed = the number of COMPLETED results,
\* failed = the number of FAILED results and results = the list passed in;
\* passed + failed <= totalTests, with equality exactly when every result is
\* COMPLETED or FAILED.
C12_SummaryFile ==
    [][\A k \in ReportCallers :
          (allure[k].state = "write" /\ allure'[k].state = "resolved") =>
             LET results == allure[k].results
                 passed == Cardinality(IndicesWith(results, COMPLETED))
                 failed == Cardinality(IndicesWith(results, FAILED))
             IN /\ allure'[k].value.dir = allure[k].dir
                /\ allure[k].dir \in dirs'
                /\ \E f \in files' :
                      /\ f.path = allure'[k].value
                      /\ f.data.totalTests = Len(results)
                      /\ f.data.passed = passed
                      /\ f.data.failed = failed
                      /\ f.data.results = results
                      /\ f.data.passed + f.data.failed <= f.data.totalTests
                      /\ (f.data.passed + f.data.failed = f.data.totalTests)
                            <=> (\A i \in 1..Len(results) :
                                    results[i].status \in {COMPLETED, FAILED})]_vars

\* A call with a custom directory and a list holding a COMPLETED and a PENDING
\* result has resolved and its file is there.
C12_Witness ==
    \E k \in ResolvedReports :
        /\ allure[k].dir = "custom-reports"
        /\ IndicesWith(allure[k].results, COMPLETED) # {}
        /\ IndicesWith(allure[k].results, PENDING) # {}
        /\ \E f \in files : f.path = allure[k].value /\ f.data.passed = 1

ResolvedSyncs == {k \in ReportCallers : jira[k].state = "resolved"}

\* C13: syncWithZephyrJira returns the "No issues to sync" message for a list
\* with no FAILED entry and "Mock: Synced N failed test(s) with Jira." for a
\* list with N >= 1 FAILED entries, N being exactly their number.
C13_SyncCountsFailed ==
    \A k \in ResolvedSyncs :
        LET n == Cardinality(IndicesWith(jira[k].results, FAILED)) IN
        jira[k].value =
            IF n = 0
            THEN <<"No issues to sync with Jira/Zephyr - all tests passed!">>
            ELSE <<"Mock: Synced ", n, " failed test(s) with Jira.">>

\* A sync of a list with two FAILED entries and a PENDING one has resolved.
C13_Witness ==
    \E k \in ResolvedSyncs :
        /\ Cardinality(IndicesWith(jira[k].results, FAILED)) = 2
        /\ IndicesWith(jira[k].results, PENDING) # {}
        /\ jira[k].value[2] = 2

\* A sync of a list with a RUNNING entry and no FAILED one has resolved.
C13_WitnessNoFailed ==
    \E k \in ResolvedSyncs :
        /\ IndicesWith(jira[k].results, RUNNING) # {}
        /\ IndicesWith(jira[k].results, FAILED) = {}


\* ----------------------------------------------------------- agent histories
\* C14: generateReport is a pure read. A step that neither starts nor settles
\* an executeTask call leaves every agent's history as it was, and a
\* generateReport call that follows one on the same agent with no executeTask
\* completed in between returns the same agentType, counts and testResults.
C14_PureRead ==
    [][(pending' = pending /\ nextCall' = nextCall) =>
          /\ testResults' = testResults
          /\ \A old \in lastReport, new \in lastReport' :
                (old.agent = new.agent /\
                 old.completedAtReturn = new.completedAtReturn) =>
                   /\ new.report.agentType = old.report.agentType
                   /\ new.report.totalTests = old.report.totalTests
                   /\ new.report.passedTests = old.report.passedTests
                   /\ new.report.failedTests = old.report.failedTests
                   /\ testResults'[new.report.testResults] =
                        testResults[old.report.testResults]]_vars

\* generateReport has returned on an agent whose history holds one FAILED
\* result, and the history still holds it.
C14_Witness ==
    \E l \in lastReport :
        /\ l.agent = "wiremock_agent"
        /\ l.report.totalTests = 1
        /\ l.report.failedTests = 1
        /\ Len(testResults[l.agent]) = 1
        /\ l.completedAtReturn = completedCalls[l.agent]


SettledOn(a) == {s \in settled : s.agent = a}

\* C15: every executeTask call that has settled has appended exactly one
\* TaskResult to its agent's history and resolved with that entry, whether its
\* body returned or threw and whatever other calls were in flight on the agent:
\* a history holds one entry per settled call, none for a call still pending,
\* and no two calls returned the same entry.
C15_ReturnsAppendedEntry ==
    /\ \A a \in AgentNames : Len(testResults[a]) = Cardinality(SettledOn(a))
    /\ \A s \in settled :
          /\ s.settle = "resolved"
          /\ \E result \in s.value :
                /\ s.value = {result}
                /\ result.taskName = s.task
                /\ Cardinality({i \in 1..Len(testResults[s.agent]) :
                                   testResults[s.agent][i] = result}) = 1
    /\ \A s1 \in settled, s2 \in settled : s1 # s2 => s1.value # s2.value

\* Two calls on the mobile agent were in flight together (the later call
\* settled first) and both bodies threw.
C15_Witness ==
    \E s1 \in SettledOn("mobile_agent"), s2 \in SettledOn("mobile_agent") :
        /\ s1.threw /\ s2.threw
        /\ s1.cid < s2.cid
        /\ \E r1 \in s1.value, r2 \in s2.value : r1.id > r2.id


\* ------------------------------------------------------------ report phase
ReportStarted(r) == allure[r].state # "idle" \/ jira[r].state # "idle"
GatherStarted(r) ==
    pc[r] \in {"gather", "done"} \/ awaitedReport[r] # {} \/ agentReports[r] # <<>>

\* C16: in a processEvent run a report operation is under way only when every
\* executeTask call of the run has resolved and its result was pushed; the two
\* report operations are started together, neither before the other was; and
\* a generateReport call of the run is made only when both report operations
\* have resolved.
C16_ReportPhases ==
    \A r \in Runs :
        /\ ReportStarted(r) =>
              /\ PendingOf(r) = {}
              /\ \A s \in SettledOf(r) : s.consumed /\ s.settle = "resolved"
              /\ Cardinality(SettledOf(r)) = Len(AllEntries(r))
              /\ Len(allResults[r]) = Len(AllEntries(r))
              /\ pc[r] \notin {"idle", "tasks"}
        /\ allure[r].state = "idle" <=> jira[r].state = "idle"
        /\ GatherStarted(r) =>
              /\ allure[r].state = "resolved"
              /\ jira[r].state = "resolved"

\* The run awaits the mobile agent's generateReport: both report operations
\* have resolved, after all six executeTask calls.
C16_Witness ==
    \E r \in Runs :
        /\ pc[r] = "gather"
        /\ \E w \in awaitedReport[r] : w.name = "mobile_agent"
        /\ Cardinality(SettledOf(r)) = 6
        /\ allure[r].state = "resolved"
        /\ jira[r].state = "resolved"


\* C17: the agentReports of a PipelineResult has exactly one entry per
\* registered agent, keyed api_agent, mobile_agent and wiremock_agent, and each
\* entry is what that agent's generateReport returns: its agentType and counts
\* are those of the agent's history, totalTests being the number of executeTask
\* calls settled on the agent (zero when there was none).
C17_OneReportPerAgent ==
    \A r \in Runs :
        /\ \A w \in awaitedReport[r] :
              w.report = generateReport(w.name, testResults[w.name])
        /\ \A p \in returned[r] :
              /\ [i \in 1..Len(p.agentReports) |-> p.agentReports[i].name] =
                    <<"api_agent", "mobile_agent", "wiremock_agent">>
              /\ \A i \in 1..Len(p.agentReports) :
                    LET e == p.agentReports[i] IN
                    /\ e.report = generateReport(e.name, testResults[e.name])
                    /\ e.report.agentType = agentType(e.name)
                    /\ e.report.totalTests = Cardinality(SettledOn(e.name))
                    /\ e.report.passedTests =
                          Cardinality(IndicesWith(Deref(e.report.testResults), COMPLETED))
                    /\ e.report.failedTests =
                          Cardinality(IndicesWith(Deref(e.report.testResults), FAILED))

\* A PipelineResult was returned whose API report counts two failures and
\* whose WireMock report counts two passes.
C17_Witness ==
    \E r \in Runs : \E p \in returned[r] :
        /\ Len(p.agentReports) = 3
        /\ p.agentReports[1].report.failedTests = 2
        /\ p.agentReports[3].report.passedTests = 2


\* -------------------------------------------------------------- task table
\* C18: getTasksForEvent depends on nothing but event.eventType, and not on
\* that either: two events with the same eventType get the same table whatever
\* their branch, commit, author and metadata, and every event (DEV, CI, PR or
\* any other eventType) gets the one fixed table.
C18_SameTable ==
    /\ \A t1 \in tables, t2 \in tables :
          t1.event.eventType = t2.event.eventType => t1.table = t2.table
    /\ \A t \in tables :
          t.table =
            << [name |-> "api_agent", tasks |-> <<"postman_tests", "api_validation">>],
               [name |-> "mobile_agent", tasks |-> <<"appium_tests", "webdriver_tests">>],
               [name |-> "wiremock_agent", tasks |-> <<"wiremock_tests", "wiremock_tests">>] >>

\* Two pull-request events that differ in every other field were asked about.
C18_Witness ==
    \E t1 \in tables, t2 \in tables :
        /\ t1.event.eventType = PR_EVENT /\ t2.event.eventType = PR_EVENT
        /\ t1.event.branch # t2.event.branch
        /\ t1.event.commitHash # t2.event.commitHash
        /\ t1.event.author # t2.event.author
        /\ t1.event.metadata # t2.event.metadata

\* An event with an eventType outside the enum and a DEV event were asked about.
C18_WitnessOtherType ==
    \E t1 \in tables, t2 \in tables :
        /\ t1.event.eventType = "release_event"
        /\ t2.event.eventType = DEV_EVENT


\* ----------------------------------------------------- histories over time
\* C19: an agent's history is append-only and its entries are terminal. No
\* step shortens a history or changes the status, the position or any other
\* field of an entry already in it, every entry is COMPLETED or FAILED, and a
\* task executed again gets a new entry after the earlier ones.
C19_AppendOnly ==
    [][\A a \in AgentNames :
          /\ Len(testResults'[a]) >= Len(testResults[a])
          /\ \A i \in 1..Len(testResults[a]) : testResults'[a][i] = testResults[a][i]
          /\ \A i \in 1..Len(testResults'[a]) :
                testResults'[a][i].status \in {COMPLETED, FAILED}]_vars

\* A task failed and was executed again with success: the history holds both
\* results, the earlier one first.
C19_Witness ==
    \E a \in AgentNames :
        /\ Len(testResults[a]) = 2
        /\ testResults[a][1].taskName = testResults[a][2].taskName
        /\ testResults[a][1].status = FAILED
        /\ testResults[a][2].status = COMPLETED

\* C20: agents share no mutable state. A step in which an executeTask call
\* settles on one agent leaves the history of every other agent, and so the
\* report generateReport gives for it, as they were.
C20_NoSharedState ==
    [][\A c \in pending \ pending' : \A b \in AgentNames \ {c.agent} :
          /\ testResults'[testResultsOf(b)] = testResults[testResultsOf(b)]
          /\ generateReport(b, testResults'[testResultsOf(b)]) =
                generateReport(b, testResults[testResultsOf(b)])]_vars

\* A call has settled on the mobile agent after the API agent's history got a
\* result; the histories of the WireMock and HeadSpin agents are empty.
C20_Witness ==
    /\ Len(testResults["api_agent"]) = 1
    /\ Len(testResults["mobile_agent"]) = 1
    /\ testResults["mobile_agent"][1].id > testResults["api_agent"][1].id
    /\ testResults["wiremock_agent"] = <<>>
    /\ testResults[HEADSPIN_INSTANCE] = <<>>


\* ------------------------------------------------------------ task failures
\* The settled call of a run that gave the i-th result of the run.
CallOfResult(r, i) ==
    CHOOSE s \in SettledOf(r) : s.value = {allResults[r][i]}

\* C21: when a task body throws, the result of its executeTask call is FAILED
\* and its error is the message of the thrown Error, or the thrown value as a
\* string when it is no Error; and every result of a run is fixed by its own
\* table entry and its own body's outcome alone: a task whose body returned
\* has the COMPLETED result with the output of that task, whatever the other
\* tasks of the run did.
C21_ErrorMessageAndIsolation ==
    /\ \A s \in settled : s.threw =>
          \E result \in s.value :
              /\ result.status = FAILED
              /\ result.output = EmptyStr
              /\ result.error = {s.thrown.text}
    /\ \A r \in Runs : \A i \in 1..Len(allResults[r]) :
          LET e == AllEntries(r)[i]
              s == CallOfResult(r, i)
              result == allResults[r][i]
          IN  /\ s.agent = e.agent /\ s.task = e.task
              /\ result.taskName = e.task
              /\ ~s.threw =>
                    result = createTaskResult(result.id, e.task, COMPLETED,
                                TaskBody(e.agent, e.task, EnvOk).value, Undefined)
              /\ s.threw => result.status = FAILED

\* A run is over in which the body of appium_tests threw a value that is no
\* Error and every other task completed.
C21_Witness ==
    \E r \in Runs :
        /\ pc[r] = "done"
        /\ allResults[r][3].status = FAILED
        /\ allResults[r][3].error = {<<"oops">>}
        /\ \A i \in {1, 2, 4, 5, 6} : allResults[r][i].status = COMPLETED

\* A run is over in which the body of api_validation threw an Error.
C21_WitnessError ==
    \E r \in Runs :
        /\ pc[r] = "done"
        /\ allResults[r][2].error = {<<"boom">>}
        /\ \A i \in {1, 3, 4, 5, 6} : allResults[r][i].status = COMPLETED


\* ------------------------------------------------------ reporting failures
ReportRejected(r) == "rejected" \in {allure[r].state, jira[r].state}

\* C22: a failure of the reporting step is not caught. Once generateAllureReport
\* (its mkdir or its writeFile) or syncWithZephyrJira has rejected, the run
\* returns no PipelineResult and makes no generateReport call, it can only
\* reject, and when it has it rejected with that operation's error; all six
\* tasks of the run were executed before and are in the agents' histories.
C22_ReportFailureRejects ==
    \A r \in Runs :
        /\ ReportRejected(r) =>
              /\ pc[r] \in {"reports", "rejected"}
              /\ returned[r] = {}
              /\ awaitedReport[r] = {}
              /\ agentReports[r] = <<>>
              /\ pc[r] = "rejected" =>
                    /\ rejection[r] # {}
                    /\ rejection[r] \subseteq {MKDIR_ERROR, WRITE_ERROR}
                    /\ \A e \in rejection[r] : allure[r].error = e
              /\ Len(allResults[r]) = 6
              /\ \A i \in 1..Len(allResults[r]) :
                    \E k \in 1..Len(testResults[AllEntries(r)[i].agent]) :
                        testResults[AllEntries(r)[i].agent][k] = allResults[r][i]
        /\ pc[r] = "rejected" => ReportRejected(r)
        /\ rejection[r] # {} => pc[r] = "rejected"

\* The file write failed while the sync was still under way, and the run
\* rejected with the write error.
C22_Witness ==
    \E r \in Runs :
        /\ pc[r] = "rejected"
        /\ rejection[r] = {WRITE_ERROR}
        /\ jira[r].state = "delay"
        /\ Len(testResults["wiremock_agent"]) = 2

\* The directory could not be created and the run rejected with that error
\* after the sync had resolved.
C22_WitnessMkdir ==
    \E r \in Runs :
        /\ pc[r] = "rejected"
        /\ rejection[r] = {MKDIR_ERROR}
        /\ jira[r].state = "resolved"


\* C23: the two report operations of a run leave the TaskResult list they were
\* given as it was: while either is under way or done, the run's list is still
\* the list each was started with. Their outputs are fixed by that list
\* whatever the order in which they finish: generatedReports is the summary
\* file path followed by the sync message, the file holds the counts and the
\* results of the list, and the message counts its FAILED results.
C23_ReportsReadOnly ==
    \A r \in Runs :
        /\ allure[r].state \in {"mkdir", "write", "resolved"} =>
              allure[r].results = allResults[r]
        /\ jira[r].state \in {"delay", "resolved"} => jira[r].results = allResults[r]
        /\ \A p \in returned[r] :
              LET n == Cardinality(IndicesWith(p.taskResults, FAILED)) IN
              /\ p.taskResults = allResults[r]
              /\ Len(p.generatedReports) = 2
              /\ p.generatedReports[1] = allure[r].value
              /\ p.generatedReports[1].dir = "pipeline-reports"
              /\ p.generatedReports[2] =
                    IF n = 0
                    THEN <<"No issues to sync with Jira/Zephyr - all tests passed!">>
                    ELSE <<"Mock: Synced ", n, " failed test(s) with Jira.">>
              /\ \E f \in files :
                    /\ f.path = p.generatedReports[1]
                    /\ f.data.results = p.taskResults
                    /\ f.data.totalTests = Len(p.taskResults)
                    /\ f.data.failed = n

\* A run returned the path and a message about three failures.
C23_Witness ==
    \E r \in Runs : \E p \in returned[r] :
        /\ p.generatedReports[1].stamp = 1
        /\ p.generatedReports[2] = <<"Mock: Synced ", 3, " failed test(s) with Jira.">>

\* The sync has resolved while the summary file is not written yet.
C23_WitnessSyncFirst ==
    \E r \in Runs : jira[r].state = "resolved" /\ allure[r].state = "mkdir"

\* The summary file is written while the sync is still under way.
C23_WitnessFileFirst ==
    \E r \in Runs : jira[r].state = "delay" /\ allure[r].state = "resolved"


\* ------------------------------------------------------------- later runs
\* The table entries of an agent in a run.
EntriesOf(r, a) ==
    {i \in 1..Len(AllEntries(r)) : AllEntries(r)[i].agent = a}

\* C24: agent histories are never reset between runs. The PipelineResult of
\* the k-th of the processEvent calls a caller makes one after the other
\* reports for every agent totalTests = k times the number of the agent's table
\* entries, while its taskResults holds the six results of that run alone.
C24_HistoriesAccumulate ==
    \A r \in AllRuns : \A p \in returned[r] :
        /\ \A i \in 1..Len(p.agentReports) :
              LET e == p.agentReports[i] IN
              /\ e.report.totalTests = r * Cardinality(EntriesOf(r, e.name))
              /\ e.report.totalTests = r * 2
        /\ Len(p.taskResults) = 6
        /\ \A i \in 1..Len(p.taskResults) :
              \E s \in SettledOf(r) : s.value = {p.taskResults[i]}
        /\ \A q \in AllRuns \ {r} : \A i \in 1..Len(p.taskResults) :
              \A s \in SettledOf(q) : s.value # {p.taskResults[i]}

\* The second run has returned its PipelineResult after a first run whose
\* mobile tasks failed; its own mobile tasks completed.
C24_Witness ==
    /\ \E p \in returned[1] :
          /\ p.taskResults[3].status = FAILED
          /\ p.taskResults[4].status = FAILED
    /\ \E p \in returned[2] :
          /\ p.agentReports[2].report.totalTests = 4
          /\ p.agentReports[2].report.passedTests = 2
          /\ p.taskResults[3].status = COMPLETED
          /\ p.taskResults[4].status = COMPLETED


\* ---------------------------------------------------------- report records
\* C25: an AgentReport is a snapshot. For every report generateReport has
\* returned, totalTests is the length of its testResults and passedTests the
\* number of COMPLETED entries in its testResults, also after later
\* executeTask calls on the agent.
C25_ReportIsSnapshot ==
    \A l \in lastReport :
        /\ l.report.totalTests = Len(Deref(l.report.testResults))
        /\ l.report.passedTests =
              Cardinality(IndicesWith(Deref(l.report.testResults), COMPLETED))


Finished(r) == pc[r] \in {"done", "rejected"}

\* C26: when two processEvent calls run interleaved on one orchestrator, the
\* taskResults of each holds the results of its own executeTask calls, in table
\* order, each once, and every result its loop has taken; no result of the
\* other run is among them. When both runs have finished, every agent's
\* history holds one entry per executeTask call made on it by either run.
C26_RunsDoNotMix ==
    /\ \A r \in AllRuns :
          LET entries == IF event[r] = {} THEN <<>> ELSE AllEntries(r)
              own == SettledOf(r)
              others == settled \ own
          IN  /\ Len(allResults[r]) = Cardinality({s \in own : s.consumed})
              /\ \A i \in 1..Len(allResults[r]) :
                    /\ \E s \in own :
                          /\ s.value = {allResults[r][i]}
                          /\ s.consumed
                          /\ s.agent = entries[i].agent
                          /\ s.task = entries[i].task
                    /\ \A s \in others : s.value # {allResults[r][i]}
                    /\ \A j \in 1..Len(allResults[r]) :
                          i # j => allResults[r][i] # allResults[r][j]
    /\ (\A r \in AllRuns : Finished(r)) =>
          /\ \A r \in AllRuns : Len(allResults[r]) = 6
          /\ \A a \in AgentNames :
                /\ Len(testResults[a]) = Cardinality(SettledOn(a))
                /\ \A s \in SettledOn(a) :
                      Cardinality({k \in 1..Len(testResults[a]) :
                                     s.value = {testResults[a][k]}}) = 1
          /\ \A i \in 1..Len(agents) : Len(testResults[agents[i]]) = 4

\* Both runs have finished, and in the mobile agent's history the results of
\* the two runs alternate.
C26_Witness ==
    /\ \A r \in AllRuns : pc[r] = "done"
    /\ LET h == testResults["mobile_agent"] IN
          /\ Len(h) = 4
          /\ {h[1], h[3]} = {allResults[1][3], allResults[1][4]}
          /\ {h[2], h[4]} = {allResults[2][3], allResults[2][4]}
          /\ h[2].status = FAILED


\* -------------------------------------------------- reports against the run
RECURSIVE ConcatTestResults(_)
ConcatTestResults(reports) ==
    IF reports = <<>>
    THEN <<>>
    ELSE ConcatTestResults(SubSeq(reports, 1, Len(reports) - 1))
         \o Deref(reports[Len(reports)].report.testResults)

RECURSIVE SumOver(_, _)
SumOver(reports, field) ==
    IF reports = <<>>
    THEN 0
    ELSE SumOver(SubSeq(reports, 1, Len(reports) - 1), field)
         + (IF field = "passedTests"
            THEN reports[Len(reports)].report.passedTests
            ELSE reports[Len(reports)].report.failedTests)

\* C27: in the PipelineResult of the first processEvent call on a fresh
\* orchestrator the testResults of the agent reports, put one after the other
\* in registry order, are the run's taskResults; the passedTests add up to the
\* number of COMPLETED taskResults and the failedTests to the number of FAILED
\* ones, the counts the summary file holds.
C27_ReportsAgreeWithRun ==
    \A r \in Runs : \A p \in returned[r] :
        /\ ConcatTestResults(p.agentReports) = p.taskResults
        /\ SumOver(p.agentReports, "passedTests") =
              Cardinality(IndicesWith(p.taskResults, COMPLETED))
        /\ SumOver(p.agentReports, "failedTests") =
              Cardinality(IndicesWith(p.taskResults, FAILED))
        /\ \E f \in files :
              /\ f.path = p.generatedReports[1]
              /\ f.data.passed = SumOver(p.agentReports, "passedTests")
              /\ f.data.failed = SumOver(p.agentReports, "failedTests")

\* The first run returned with four passed and two failed tests, the failed
\* ones being the mobile agent's.
C27_Witness ==
    \E r \in Runs : \E p \in returned[r] :
        /\ SumOver(p.agentReports, "passedTests") = 4
        /\ p.agentReports[2].report.failedTests = 2


\* ------------------------------------------------ coverage of the task table
\* The executeTask calls run r has started on agent a with the task name.
CallsOn(r, a, task) ==
    {c \in pending \cup settled :
        c.caller = r /\ c.agent = a /\ c.task = task}

LoopLeft(r) == pc[r] \in {"reports", "gather", "done", "rejected"}

\* C28: in one processEvent run every task name a registered agent recognizes
\* is executed exactly once on that agent: no (agent, task) pair is executed
\* twice, no recognized task is left out once the loop is over, and every task
\* name of the table is recognized by the agent it is assigned to.
C28_EachRecognizedTaskOnce ==
    \A r \in Runs :
        /\ \A i \in 1..Len(agents) : \A t \in RecognizedTasks(agents[i]) :
              /\ Cardinality(CallsOn(r, agents[i], t)) <= 1
              /\ LoopLeft(r) => Cardinality(CallsOn(r, agents[i], t)) = 1
        /\ pc[r] # "idle" =>
              \A i \in 1..Len(AllEntries(r)) :
                  AllEntries(r)[i].task \in RecognizedTasks(AllEntries(r)[i].agent)


\* ------------------------------------------------------------ smart retry
\* What the claim says of one answer, the text being the one given.
RetryExactlyWhen(a, text) ==
    LET c == retry.config IN
    /\ a.answer <=> (/\ c.enabled
                     /\ a.attempt < c.maxRetries
                     /\ ~SomePattern(text, c.skipPatterns)
                     /\ SomePattern(text, c.retryPatterns))
    /\ (SomePattern(text, c.skipPatterns) /\ SomePattern(text, c.retryPatterns))
          => ~a.answer
    /\ a.attempt >= c.maxRetries => ~a.answer

\* C30 as stated: shouldRetryTest(error, attempt, config) returns true exactly
\* when smartRetry is enabled, attempt < maxRetries, the error message
\* (error.message) contains no skip pattern and contains at least one retry
\* pattern; a skip pattern wins over a retry pattern in the same message; for
\* attempt >= maxRetries the answer is false for every message; a retry loop
\* driven by it makes at most maxRetries retries.
C30_RetryExactlyWhenMessage ==
    retry.phase # "idle" =>
        /\ \A a \in retry.asked : RetryExactlyWhen(a, a.error.message)
        /\ retry.retries <= retry.config.maxRetries

\* C30 amended: the same, the text searched for patterns being error.message
\* or, when the message is empty, error.toString() (the error's name).
C30_RetryExactlyWhenText ==
    retry.phase # "idle" =>
        /\ \A a \in retry.asked : RetryExactlyWhen(a, ErrorText(a.error))
        /\ retry.retries <= retry.config.maxRetries

\* The loop under the default configuration has made its two retries and gave
\* up at attempt 2 on a message that holds a retry pattern and no skip pattern.
C30_Witness ==
    /\ retry.phase = "gave_up"
    /\ retry.config = getDefaultAIConfig
    /\ retry.retries = DEFAULT_MAX_RETRIES
    /\ \E a \in retry.asked :
          /\ a.attempt = DEFAULT_MAX_RETRIES
          /\ ~a.answer
          /\ a.error.message = <<"TimeoutError">>

\* A skip pattern and a retry pattern in one message at attempt 0: no retry.
C30_WitnessSkipWins ==
    /\ retry.phase = "gave_up"
    /\ retry.config = getDefaultAIConfig
    /\ \E a \in retry.asked :
          /\ a.attempt = 0
          /\ ~a.answer
          /\ a.error.message = <<"TimeoutError", "expect(">>

\* An error without message whose name is a retry pattern is retried.
C30_WitnessEmptyMessage ==
    /\ retry.phase = "running"
    /\ \E a \in retry.asked :
          /\ a.answer
          /\ a.error.message = EmptyStr
          /\ a.error.name = <<"TimeoutError">>


\* ------------------------------------------------------------ termination
CallsOfRun(r) == {c \in pending \cup settled : c.caller = r}

\* The executeTask calls of a run are those of the table, entry by entry, none
\* of them made twice; a finished run has made them all and has started both
\* report operations.
OneCallPerEntry ==
    \A r \in Runs : pc[r] # "idle" =>
        LET entries == AllEntries(r)
            calls == CallsOfRun(r)
        IN  /\ \A c \in calls :
                  /\ c.cid \in 1..Len(entries)
                  /\ entries[c.cid].agent = c.agent
                  /\ entries[c.cid].task = c.task
            /\ Cardinality({c.cid : c \in calls}) = Cardinality(calls)
            /\ Finished(r) =>
                  /\ {c.cid : c \in calls} = 1..Len(entries)
                  /\ PendingOf(r) = {}
                  /\ allure[r].state # "idle"
                  /\ jira[r].state # "idle"

\* A report operation that has been started is never started again.
ReportsStartedOnce ==
    \A r \in Runs :
        /\ (allure[r].state # "idle" /\ allure'[r].state = "mkdir")
              => allure'[r] = allure[r]
        /\ (jira[r].state # "idle" /\ jira'[r].state = "delay")
              => jira'[r] = jira[r]

\* C29: provided every task body and both report operations eventually finish,
\* every processEvent call eventually finishes (resolves or rejects), after
\* exactly one executeTask call per table entry, one generateAllureReport call
\* and one syncWithZephyrJira call; no task is repeated or retried and the call
\* never waits forever.
C29_Terminates ==
    /\ []OneCallPerEntry
    /\ [][ReportsStartedOnce]_vars
    /\ \A r \in Runs : (pc[r] # "idle") ~> Finished(r)

\* The run has resolved after six calls, the first of which failed and was not
\* repeated.
C29_Witness ==
    \E r \in Runs :
        /\ pc[r] = "done"
        /\ Cardinality(SettledOf(r)) = 6
        /\ allResults[r][1].status = FAILED
        /\ allResults[r][2].status = COMPLETED
        /\ allure[r].state = "resolved"
        /\ jira[r].state = "resolved"

\* The run has rejected on a failed write of the summary file, all calls made.
C29_WitnessRejected ==
    \E r \in Runs :
        /\ pc[r] = "rejected"
        /\ Cardinality(SettledOf(r)) = 6
        /\ rejection[r] = {WRITE_ERROR}

====
